---- MODULE Spec2Model ----
(***************************************************************************)
(* Committee compliance dashboard (class CommitteeDashboard): the loaded   *)
(* records, the filtered view, the sort descriptor, the current page, the  *)
(* status-filter control, the URL's state parameter and the rendered       *)
(* regions, with one action per event handler.                             *)
(*                                                                         *)
(* JavaScript values are records [k, n, s]: k is the type tag ("null",     *)
(* "undef", "num", "str", "nan"), n the number, s the string as a sequence *)
(* of character codes.  Records of the data are referenced by their index  *)
(* in currentData, so the filtered view is a sequence of references.       *)
(***************************************************************************)
EXTENDS Integers, Sequences, FiniteSets

(***************************************************************************)
(* Bounds of the model.                                                    *)
(***************************************************************************)
MaxLen == 2
BigCount == 120
MaxPageArg == 4
MaxPending == 2
MaxComments == 4

\* this.itemsPerPage
itemsPerPage == 50

(***************************************************************************)
(* JavaScript values.                                                      *)
(***************************************************************************)
Null == [k |-> "null", n |-> 0, s |-> <<>>]
Undef == [k |-> "undef", n |-> 0, s |-> <<>>]
NaN == [k |-> "nan", n |-> 0, s |-> <<>>]
Num(x) == [k |-> "num", n |-> x, s |-> <<>>]
Str(cs) == [k |-> "str", n |-> 0, s |-> cs]

\* character codes: blank 32, plus 43, minus 45, the digits 48 to 57
IsDigit(c) == c >= 48 /\ c <= 57

\* string literals of the program and of the data
S_empty == <<>>
S_all == <<97, 108, 108>>
S_compliant == <<99, 111, 109, 112, 108, 105, 97, 110, 116>>
S_non_compliant == <<110, 111, 110, 45, 99, 111, 109, 112, 108, 105, 97, 110, 116>>
S_incomplete == <<105, 110, 99, 111, 109, 112, 108, 101, 116, 101>>
S_unknown == <<117, 110, 107, 110, 111, 119, 110>>
S_undefined == <<117, 110, 100, 101, 102, 105, 110, 101, 100>>
S_null == <<110, 117, 108, 108>>
S_NaN == <<78, 97, 78>>
S_TBD == <<84, 66, 68>>
S_na == <<110, 47, 97>>
S_other == <<111, 116, 104, 101, 114>>
S_NA == <<78, 47, 65>>

\* String(n) for an integer n: its decimal digits, with a leading minus sign
RECURSIVE DigitsOf(_)
DigitsOf(x) ==
    IF x < 10 THEN <<48 + x>>
    ELSE Append(DigitsOf(x \div 10), 48 + (x % 10))

JsToString(v) ==
    CASE v.k = "str" -> v.s
      [] v.k = "num" -> IF v.n < 0 THEN <<45>> \o DigitsOf(0 - v.n) ELSE DigitsOf(v.n)
      [] v.k = "undef" -> S_undefined
      [] v.k = "null" -> S_null
      [] OTHER -> S_NaN

\* the value of a sequence of decimal digits
RECURSIVE DigitsValue(_)
DigitsValue(ds) ==
    IF ds = <<>> THEN 0
    ELSE 10 * DigitsValue(SubSeq(ds, 1, Len(ds) - 1)) + (ds[Len(ds)] - 48)

\* the longest prefix of cs made of digits
RECURSIVE DigitPrefix(_)
DigitPrefix(cs) ==
    IF cs = <<>> \/ ~IsDigit(Head(cs)) THEN <<>>
    ELSE <<Head(cs)>> \o DigitPrefix(Tail(cs))

RECURSIVE TrimLeft(_)
TrimLeft(cs) ==
    IF cs # <<>> /\ Head(cs) = 32 THEN TrimLeft(Tail(cs)) ELSE cs

\* parseInt(v): String(v), leading blanks skipped, an optional sign, then the
\* leading decimal digits; NaN when there is no digit
ParseInt(v) ==
    LET t == TrimLeft(JsToString(v))
        neg == t # <<>> /\ Head(t) = 45
        body == IF t # <<>> /\ (Head(t) = 45 \/ Head(t) = 43) THEN Tail(t) ELSE t
        ds == DigitPrefix(body)
    IN  IF ds = <<>> THEN NaN
        ELSE Num(IF neg THEN 0 - DigitsValue(ds) ELSE DigitsValue(ds))

\* x || 0 for the result of parseInt: NaN and 0 are falsy
OrZero(v) == IF v.k = "nan" \/ (v.k = "num" /\ v.n = 0) THEN Num(0) ELSE v

(***************************************************************************)
(* new Date(v), as its time value.  The time value is kept in days (the    *)
(* milliseconds divided by 86400000) so that it stays in machine range.    *)
(* A string is read in the ISO format YYYY-MM-DD; a string with no digit   *)
(* in it, the empty string and undefined give an invalid date (NaN).       *)
(***************************************************************************)
IsLeap(y) == (y % 4 = 0 /\ y % 100 # 0) \/ y % 400 = 0

DaysInMonth(y, m) ==
    CASE m \in {4, 6, 9, 11} -> 30
      [] m = 2 -> IF IsLeap(y) THEN 29 ELSE 28
      [] OTHER -> 31

RECURSIVE DaysBeforeMonth(_, _)
DaysBeforeMonth(y, m) ==
    IF m <= 1 THEN 0 ELSE DaysBeforeMonth(y, m - 1) + DaysInMonth(y, m - 1)

DayFromYear(y) ==
    365 * (y - 1970) + ((y - 1969) \div 4) - ((y - 1901) \div 100) + ((y - 1601) \div 400)

MakeDay(y, m, d) == DayFromYear(y) + DaysBeforeMonth(y, m) + (d - 1)

IsIsoDate(cs) ==
    /\ Len(cs) = 10
    /\ cs[5] = 45 /\ cs[8] = 45
    /\ \A i \in {1, 2, 3, 4, 6, 7, 9, 10} : IsDigit(cs[i])

NewDate(v) ==
    CASE v.k = "num" -> v
      [] v.k = "str" /\ IsIsoDate(v.s) ->
            LET y == DigitsValue(SubSeq(v.s, 1, 4))
                m == DigitsValue(SubSeq(v.s, 6, 7))
                d == DigitsValue(SubSeq(v.s, 9, 10))
            IN  IF m >= 1 /\ m <= 12 /\ d >= 1 /\ d <= DaysInMonth(y, m)
                THEN Num(MakeDay(y, m, d))
                ELSE NaN
      [] OTHER -> NaN

(***************************************************************************)
(* The relational operator a < b on primitive values (a Date operand is    *)
(* its time value): two strings compare by code units, anything else as    *)
(* numbers, and a comparison with NaN is false.                            *)
(***************************************************************************)
RECURSIVE StrLess(_, _)
StrLess(a, b) ==
    IF b = <<>> THEN FALSE
    ELSE IF a = <<>> THEN TRUE
    ELSE IF Head(a) # Head(b) THEN Head(a) < Head(b)
    ELSE StrLess(Tail(a), Tail(b))

\* Number(v)
ToNumber(v) ==
    CASE v.k = "num" -> v
      [] v.k = "null" -> Num(0)
      [] v.k = "str" ->
            LET t == TrimLeft(v.s)
            IN  IF t = <<>> THEN Num(0)
                ELSE IF DigitPrefix(t) = t THEN Num(DigitsValue(t))
                ELSE NaN
      [] OTHER -> NaN

JsLess(a, b) ==
    IF a.k = "str" /\ b.k = "str" THEN StrLess(a.s, b.s)
    ELSE LET x == ToNumber(a)
             y == ToNumber(b)
         IN  IF x.k = "nan" \/ y.k = "nan" THEN FALSE ELSE x.n < y.n

(***************************************************************************)
(* The data supplied by the page (COMMITTEE_DATA).  A bill carries the     *)
(* fields the dashboard filters and sorts on; a field the object lacks is  *)
(* the value Undef, which is also what a[field] gives for any other name.  *)
(***************************************************************************)
Pad2(x) == <<48 + (x \div 10), 48 + (x % 10)>>

IsoDate(y, m, d) ==
    Str(Pad2(y \div 100) \o Pad2(y % 100) \o <<45>> \o Pad2(m) \o <<45>> \o Pad2(d))

Bill(st, hd, d60, eff, gap) ==
    [state |-> st, hearing_date |-> hd, deadline_60 |-> d60,
     effective_deadline |-> eff, notice_gap_days |-> gap]

\* a field name that no bill has and no column header is tagged with
UnknownField == "no_such_field"

SortFields ==
    {"state", "hearing_date", "deadline_60", "effective_deadline", "notice_gap_days"}

DateFields == {"hearing_date", "deadline_60", "effective_deadline"}

GetField(bill, field) == IF field \in DOMAIN bill THEN bill[field] ELSE Undef

\* the bills the small data sets are drawn from
Pool ==
    << Bill(Str(S_compliant), IsoDate(2025, 3, 10), IsoDate(2025, 5, 9),
            IsoDate(2025, 5, 9), Num(9)),
       Bill(Str(S_non_compliant), IsoDate(2025, 1, 15), IsoDate(2025, 3, 16),
            IsoDate(2025, 4, 15), Num(10)),
       Bill(Str(S_compliant), Null, Null, Null, Null),
       Bill(Str(S_unknown), Str(S_TBD), Undef, Undef, Str(S_na)),
       Bill(Str(S_non_compliant), IsoDate(2025, 3, 10), IsoDate(2025, 5, 9),
            IsoDate(2025, 5, 9), Num(9)) >>

Injective(f) == \A i, j \in DOMAIN f : i # j => f[i] # f[j]

\* the bills of the pool at the positions S, in pool order
Ascending(S) ==
    [i \in 1..Cardinality(S) |->
        Pool[CHOOSE x \in S : Cardinality({y \in S : y < x}) = i - 1]]

\* every choice of at most MaxLen bills of the pool
SmallDataSets ==
    { Ascending(S) :
        S \in {T \in SUBSET (1..Len(Pool)) : Cardinality(T) <= MaxLen} }

\* notice gaps 9, 10, 2, null
GapExample ==
    << Bill(Str(S_compliant), IsoDate(2025, 3, 10), Null, Null, Num(9)),
       Bill(Str(S_compliant), IsoDate(2025, 3, 11), Null, Null, Num(10)),
       Bill(Str(S_incomplete), IsoDate(2025, 3, 12), Null, Null, Num(2)),
       Bill(Str(S_unknown), IsoDate(2025, 3, 13), Null, Null, Null) >>

\* a missing hearing date between two hearing dates
NullDateExample ==
    << Bill(Str(S_compliant), IsoDate(2025, 3, 1), IsoDate(2025, 4, 30),
            IsoDate(2025, 4, 30), Num(12)),
       Bill(Str(S_compliant), Null, Null, Null, Null),
       Bill(Str(S_compliant), IsoDate(2025, 1, 1), IsoDate(2025, 3, 2),
            IsoDate(2025, 3, 2), Num(12)) >>

\* BigCount bills, more than one page of them: the four statuses in turn,
\* the other fields alike
BigStates == <<Str(S_compliant), Str(S_non_compliant), Str(S_incomplete), Str(S_unknown)>>

BigDataSet ==
    [i \in 1..BigCount |->
        Bill(BigStates[(i % 4) + 1], IsoDate(2025, 6, 1), Null, Null, Num(12))]

\* one bill in three complies, and one has a state that is none of the four
StateExample ==
    << Bill(Str(S_other), IsoDate(2025, 2, 3), IsoDate(2025, 4, 4), Null, Num(12)),
       Bill(Str(S_compliant), IsoDate(2025, 2, 3), Null, IsoDate(2025, 4, 4), Num(12)),
       Bill(Str(S_non_compliant), IsoDate(2025, 2, 3), Null, Null, Num(12)) >>

DataSets ==
    SmallDataSets \cup {GapExample, NullDateExample, StateExample, BigDataSet}

\* the options of the status-filter control
StatusOptions == {S_all, S_compliant, S_non_compliant, S_incomplete, S_unknown}

\* what the URL's query string can hold for the parameter "state"
UrlParams ==
    {[present |-> FALSE, value |-> S_empty]}
        \cup {[present |-> TRUE, value |-> v] : v \in StatusOptions \cup {S_other}}

\* assigning select.value: a value that is no option leaves no option selected,
\* and the control's value is then the empty string
SetSelectValue(v) == IF v \in StatusOptions THEN v ELSE S_empty

(***************************************************************************)
(* State.                                                                  *)
(***************************************************************************)
VARIABLES
    currentData,    \* this.currentData: the loaded bills
    filteredData,   \* this.filteredData: indices into currentData
    currentSort,    \* this.currentSort: [field, direction]; field "null" is null
    currentPage,    \* this.currentPage
    statusFilter,   \* value of the status-filter control
    urlState,       \* the parameter "state" of window.location
    tableBody,      \* rows of the table body: the bills of the rendered page
    tbody,          \* the tr elements of the table body, in document order
    clickLog,       \* history: the row clicks since the table was rendered (last 2)
    buttonText,     \* the label each share button shows
    timers,         \* per share button, the labels its pending timeouts restore
    clipboard,      \* the text last written to the clipboard, if any
    shareLog,       \* history: what the last share click tried and showed
    pageErrors,     \* uncaught errors and unhandled rejections of the page
    thread,         \* the comments of the post: thread[c] is the parent of c, or 0
    pending,        \* the includes of comment.html still to be rendered
    rendered,       \* the comments rendered, each with the depth it was rendered at
    links,          \* the comments rendered with a "Continue discussion" link
    pagination,     \* the pagination region
    summaryStats,   \* the four summary counters
    chartData,      \* the counts given to the chart
    accessTable,    \* the counts of the accessibility table
    sortIndicator,  \* the column header marked with aria-sort, and how
    historyLength,  \* window.history.length
    loadedData,     \* history: COMMITTEE_DATA as the constructor received it
    firstRender,    \* history: what init() rendered before it read the URL
    preUrl,         \* history: the parameter "state" when the last handler started
    lastOp,         \* history: the handler that ran last and its argument
    preFiltered,    \* history: filteredData when that handler started
    prePage,        \* history: currentPage when that handler started
    preSort,        \* history: currentSort when that handler started
    sortStreak      \* history: sortTable calls in a row on the same field (up to 2)

vars ==
    <<currentData, filteredData, currentSort, currentPage, statusFilter, urlState,
      tableBody, tbody, clickLog, buttonText, timers, clipboard, shareLog,
      pageErrors, thread, pending, rendered, links,
      pagination, summaryStats, chartData, accessTable, sortIndicator,
      historyLength, loadedData, firstRender, preUrl, lastOp, preFiltered, prePage, preSort, sortStreak>>

dashboardVars ==
    <<currentData, filteredData, currentSort, currentPage, statusFilter, urlState,
      tableBody, pagination, summaryStats, chartData, accessTable, sortIndicator,
      historyLength, loadedData, firstRender, preUrl, lastOp, preFiltered, prePage,
      preSort, sortStreak>>

rowVars == <<tbody, clickLog>>

shareVars == <<buttonText, timers, clipboard, shareLog, pageErrors>>

commentVars == <<thread, pending, rendered, links>>

(***************************************************************************)
(* applyFilters: the filter.                                               *)
(***************************************************************************)
KeepBill_NoAll(bill, sf) == ~(bill.state # Str(sf))

\* the callback of currentData.filter
KeepBill(bill, sf) == ~(sf # S_all /\ bill.state # Str(sf))

\* currentData.filter(callback): the bills the callback keeps, in data order
FilterRecords(data, sf) ==
    SelectSeq([i \in 1..Len(data) |-> i], LAMBDA i : KeepBill(data[i], sf))

ResetPage_Keep(page) == page

\* this.currentPage = 1
ResetPage(page) == 1

(***************************************************************************)
(* sortTable: the sort descriptor, the comparator and Array.prototype.sort *)
(***************************************************************************)
InitialSort == [field |-> "null", direction |-> "asc"]

NextSort_NoToggle(cs, field) == [field |-> field, direction |-> "asc"]

NextSort(cs, field) ==
    IF cs.field = field
    THEN [field |-> cs.field,
          direction |-> IF cs.direction = "asc" THEN "desc" ELSE "asc"]
    ELSE [field |-> field, direction |-> "asc"]

SortKey_Text(v, field) ==
    LET a == IF v.k = "null" THEN Str(S_empty) ELSE v
    IN  IF field = "notice_gap_days" THEN Str(IF a.k = "str" THEN a.s ELSE JsToString(a))
        ELSE IF field = "hearing_date" THEN NewDate(a)
        ELSE a

\* aVal (bVal) as the comparator compares it
SortKey(v, field) ==
    LET a == IF v.k = "null" THEN Str(S_empty) ELSE v
    IN  IF field = "notice_gap_days" THEN OrZero(ParseInt(a))
        ELSE IF field = "hearing_date" THEN NewDate(a)
        ELSE a

Compare_AscOnly(ka, kb, dir) ==
    IF JsLess(ka, kb) THEN 0 - 1 ELSE IF JsLess(kb, ka) THEN 1 ELSE 0

\* the comparator's result for two keys
Compare(ka, kb, dir) ==
    IF JsLess(ka, kb) THEN (IF dir = "asc" THEN 0 - 1 ELSE 1)
    ELSE IF JsLess(kb, ka) THEN (IF dir = "asc" THEN 1 ELSE 0 - 1)
    ELSE 0

\* the comparator is a consistent comparison function for the keys K
Consistent(K, dir) ==
    \A a, b, c \in K :
        /\ (Compare(a, b, dir) = 0 /\ Compare(b, c, dir) = 0) => Compare(a, c, dir) = 0
        /\ (Compare(a, b, dir) < 0 /\ Compare(b, c, dir) < 0) => Compare(a, c, dir) < 0

\* the stable sort of arr, keys[i] being the key of arr[i]: the keys in the
\* comparator's order, the elements of one key in the order they had.
\* ord[k] is the number of keys that sort before k.
StableSortBy(arr, keys, K, ord) ==
    LET n == Len(arr)
        idx == [i \in 1..n |-> i]
        bucket(o) == SelectSeq(idx, LAMBDA i : ord[keys[i]] = o)
        RECURSIVE Cat(_)
        Cat(o) == IF o >= Cardinality(K) THEN <<>> ELSE bucket(o) \o Cat(o + 1)
    IN  CHOOSE res \in { [r \in 1..n |-> arr[order[r]]] : order \in {Cat(0)} } : TRUE

StableSort(arr, keys, dir) ==
    LET K == {keys[i] : i \in 1..Len(arr)}
    IN  CHOOSE res \in
            { StableSortBy(arr, keys, K, ord) :
                ord \in {[k \in K |-> Cardinality({k2 \in K : Compare(k2, k, dir) < 0})]} } :
            TRUE

PermutationsOf(arr) ==
    LET n == Len(arr)
    IN  { [i \in 1..n |-> arr[p[i]]] : p \in { q \in [1..n -> 1..n] : Injective(q) } }

SortByKeys_Dropping(arr, keys, dir) ==
    IF Len(arr) > 1 THEN {Tail(StableSort(arr, keys, dir))} ELSE {arr}

\* the orders arr.sort(comparator) can leave, keys[i] being the key of arr[i]:
\* the stable sort when the comparator is consistent for the keys, an
\* implementation-defined order otherwise
SortByKeys(arr, keys, dir) ==
    IF Consistent({keys[i] : i \in 1..Len(arr)}, dir)
    THEN {StableSort(arr, keys, dir)}
    ELSE PermutationsOf(arr)

\* this.filteredData.sort((a, b) => ...) in sortTable
SortOutcomes(data, arr, field, dir) ==
    UNION { SortByKeys(arr, keys, dir) :
              keys \in { [i \in 1..Len(arr) |->
                            SortKey(GetField(data[arr[i]], field), field)] } }

\* updateSortIndicators: the header tagged with the field, if there is one
UpdateSortIndicators(cs) ==
    IF cs.field # "null" /\ cs.field \in SortFields
    THEN [field |-> cs.field,
          aria |-> IF cs.direction = "asc" THEN "ascending" ELSE "descending"]
    ELSE [field |-> "null", aria |-> "none"]

(***************************************************************************)
(* Rendering.                                                              *)
(***************************************************************************)
Min(a, b) == IF a < b THEN a ELSE b

Max(a, b) == IF a > b THEN a ELSE b

\* arr.slice(start, end): a negative index counts from the end of the array
Slice(arr, start, end) ==
    LET len == Len(arr)
        from == IF start < 0 THEN Max(len + start, 0) ELSE Min(start, len)
        to == IF end < 0 THEN Max(len + end, 0) ELSE Min(end, len)
    IN  IF from >= to THEN <<>> ELSE SubSeq(arr, from + 1, to)

RenderTable_FromOne(filtered, page) ==
    Slice(filtered, (page - 1) * itemsPerPage + 1,
          (page - 1) * itemsPerPage + 1 + itemsPerPage)

\* renderTable: pageData
RenderTable(filtered, page) ==
    Slice(filtered, (page - 1) * itemsPerPage, (page - 1) * itemsPerPage + itemsPerPage)

\* a value in a boolean context
Truthy(v) ==
    CASE v.k = "num" -> v.n # 0
      [] v.k = "str" -> v.s # <<>>
      [] OTHER -> FALSE

HasExtension_NoBase(bill) ==
    /\ Truthy(bill.effective_deadline)
    /\ bill.effective_deadline # bill.deadline_60

\* renderTable: hasExtension
HasExtension(bill) ==
    /\ Truthy(bill.effective_deadline)
    /\ Truthy(bill.deadline_60)
    /\ bill.effective_deadline # bill.deadline_60

\* renderTable: the cell of the effective deadline, a link or plain text
EffectiveCell(bill) ==
    IF HasExtension(bill)
    THEN [link |-> TRUE, text |-> JsToString(bill.effective_deadline)]
    ELSE [link |-> FALSE,
          text |-> IF Truthy(bill.effective_deadline)
                   THEN JsToString(bill.effective_deadline)
                   ELSE S_NA]

\* renderTable: tbody.innerHTML, for each bill of the page a row tagged with
\* data-bill-id and after it a row of class "expanded-row", which starts hidden
RenderRows(data, pageData) ==
    [r \in 1..(2 * Len(pageData)) |->
        LET i == pageData[(r + 1) \div 2]
        IN  IF r % 2 = 1
            THEN [billRow |-> TRUE, expandedRow |-> FALSE, hidden |-> FALSE,
                  bill |-> i, effective |-> EffectiveCell(data[i])]
            ELSE [billRow |-> FALSE, expandedRow |-> TRUE, hidden |-> TRUE,
                  bill |-> i, effective |-> [link |-> FALSE, text |-> S_empty]]]

\* Math.ceil(a / b) for a >= 0, b > 0
CeilDiv(a, b) == IF a % b = 0 THEN a \div b ELSE (a \div b) + 1

TotalPages(len) == CeilDiv(len, itemsPerPage)

RenderPagination_NoMin(len, page) ==
    IF TotalPages(len) <= 1
    THEN [controls |-> FALSE, startItem |-> 0, endItem |-> 0, total |-> len,
          page |-> 0, totalPages |-> 0]
    ELSE [controls |-> TRUE,
          startItem |-> (page - 1) * itemsPerPage + 1,
          endItem |-> page * itemsPerPage,
          total |-> len, page |-> page, totalPages |-> TotalPages(len)]

RenderPagination_Always(len, page) ==
    IF TotalPages(len) < 1
    THEN [controls |-> FALSE, startItem |-> 0, endItem |-> 0, total |-> len,
          page |-> 0, totalPages |-> 0]
    ELSE [controls |-> TRUE,
          startItem |-> (page - 1) * itemsPerPage + 1,
          endItem |-> Min(page * itemsPerPage, len),
          total |-> len, page |-> page, totalPages |-> TotalPages(len)]

\* renderPagination: controls is whether the region holds the range text and the
\* Previous/Next buttons; without them it holds "Showing <total> bills" alone
RenderPagination(len, page) ==
    IF TotalPages(len) <= 1
    THEN [controls |-> FALSE, startItem |-> 0, endItem |-> 0, total |-> len,
          page |-> 0, totalPages |-> 0]
    ELSE [controls |-> TRUE,
          startItem |-> (page - 1) * itemsPerPage + 1,
          endItem |-> Min(page * itemsPerPage, len),
          total |-> len, page |-> page, totalPages |-> TotalPages(len)]

CountState(data, filtered, st) ==
    Cardinality({i \in 1..Len(filtered) : data[filtered[i]].state = Str(st)})

RoundPercent_Ceil(c, t) == (100 * c + t - 1) \div t

\* Math.round(c / t * 100) for c >= 0, t > 0
RoundPercent(c, t) == (200 * c + t) \div (2 * t)

UpdateSummaryStats(data, filtered) ==
    LET total == Len(filtered)
        compliant == CountState(data, filtered, S_compliant)
    IN  [total |-> total,
         compliant |-> compliant,
         nonCompliant |-> CountState(data, filtered, S_non_compliant),
         rate |-> IF total > 0 THEN RoundPercent(compliant, total) ELSE 0]

\* renderComplianceChart: statusCounts
RenderComplianceChart(data, filtered) ==
    [compliant |-> CountState(data, filtered, S_compliant),
     nonCompliant |-> CountState(data, filtered, S_non_compliant),
     incomplete |-> CountState(data, filtered, S_incomplete),
     unknown |-> CountState(data, filtered, S_unknown)]

\* updateAccessibilityTables: statusCounts
UpdateAccessibilityTables(data, filtered) ==
    LET c == CountState(data, filtered, S_compliant)
        n == CountState(data, filtered, S_non_compliant)
        i == CountState(data, filtered, S_incomplete)
    IN  [compliant |-> c, nonCompliant |-> n, incomplete |-> i,
         unknown |-> Len(filtered) - c - n - i]

\* changePage: the guard
PageInRange_NoUpper(page, len) == page >= 1

PageInRange_FromZero(page, len) == page >= 0 /\ page <= TotalPages(len)

PageInRange(page, len) == page >= 1 /\ page <= TotalPages(len)

(***************************************************************************)
(* The handlers.                                                           *)
(***************************************************************************)
Op(name, field, page) == [name |-> name, field |-> field, page |-> page]

UpdateURL_NoValue(sf, entries) ==
    [param |-> [present |-> TRUE, value |-> S_all], entries |-> entries]

UpdateURL_Push(sf, entries) ==
    [param |-> [present |-> TRUE, value |-> sf], entries |-> entries + 1]

\* updateURL: searchParams.set('state', value) and history.replaceState, which
\* replaces the current history entry; entries is history.length
UpdateURL(sf, entries) ==
    [param |-> [present |-> TRUE, value |-> sf], entries |-> entries]

LoadFiltersFromURL_Ignored(param) == S_all

\* loadFiltersFromURL: the value of the status-filter control when its
\* applyFilters runs; the control starts on its first option, "all"
LoadFiltersFromURL(param) ==
    IF param.present THEN SetSelectValue(param.value) ELSE S_all

DataAfterSort_InPlace(data, sorted) ==
    IF Len(sorted) = Len(data) THEN [p \in 1..Len(sorted) |-> data[sorted[p]]]
    ELSE data

\* this.currentData after this.filteredData.sort(...): the sort reorders the
\* array this.filteredData, which the constructor's spread and filter() made a
\* different array from this.currentData
DataAfterSort(data, sorted) == data

\* applyFilters, given the value the status-filter control has when it runs
ApplyFilters(sf) ==
    /\ filteredData' = FilterRecords(currentData, sf)
    /\ currentPage' = ResetPage(currentPage)
    /\ tableBody' = RenderTable(filteredData', currentPage')
    /\ tbody' = RenderRows(currentData, tableBody')
    /\ clickLog' = <<>>
    /\ pagination' = RenderPagination(Len(filteredData'), currentPage')
    /\ summaryStats' = UpdateSummaryStats(currentData, filteredData')
    /\ urlState' = UpdateURL(sf, historyLength).param
    /\ historyLength' = UpdateURL(sf, historyLength).entries

\* the share button of a post page and the share-link button of the dashboard
Buttons == {"share-button", "share-link"}

\* the label a share button is rendered with, and the confirmation
OriginalText == "Share"

CopiedText == "Copied!"

\* the committee code the dashboard page was rendered for
SELECTED_CODE == "J10"

NoText == [kind |-> "none", committee |-> "", state |-> S_empty]

\* window.location.href of the page
PageUrl == [kind |-> "href", committee |-> "", state |-> S_empty]

NoShare ==
    [button |-> "none", tried |-> <<>>, succeeded |-> "none", feedback |-> FALSE,
     alert |-> FALSE]

\* new CommitteeDashboard() on DOMContentLoaded: the constructor and init(),
\* which ends with loadFiltersFromURL and its applyFilters
Load(data, param) ==
        LET all == [i \in 1..Len(data) |-> i]
            sf == LoadFiltersFromURL(param)
            shown == FilterRecords(data, sf)
            page == ResetPage(1)
        IN  /\ currentData = data
            /\ statusFilter = sf
            /\ filteredData = shown
            /\ currentSort = InitialSort
            /\ currentPage = page
            /\ tableBody = RenderTable(shown, page)
            /\ tbody = RenderRows(data, tableBody)
            /\ clickLog = <<>>
            /\ pagination = RenderPagination(Len(shown), page)
            /\ summaryStats = UpdateSummaryStats(data, shown)
            /\ urlState = UpdateURL(sf, 1).param
            /\ historyLength = UpdateURL(sf, 1).entries
            /\ loadedData = data
            /\ firstRender =
                  [table |-> RenderTable(all, 1),
                   pagination |-> RenderPagination(Len(all), 1),
                   summary |-> UpdateSummaryStats(data, all)]
            /\ preUrl = param
            /\ chartData = RenderComplianceChart(data, all)
            /\ accessTable = UpdateAccessibilityTables(data, all)
            /\ sortIndicator = [field |-> "null", aria |-> "none"]
            /\ lastOp = Op("init", "null", 0)
            /\ preFiltered = all
            /\ prePage = 1
            /\ preSort = InitialSort
            /\ sortStreak = 0

\* the share buttons as the templates render them, nothing copied yet
ShareInit ==
    /\ buttonText = [b \in Buttons |-> OriginalText]
    /\ timers = [b \in Buttons |-> <<>>]
    /\ clipboard = NoText
    /\ shareLog = NoShare
    /\ pageErrors = {}

\* a page that renders no comments
NoComments ==
    /\ thread = <<>>
    /\ pending = <<>>
    /\ rendered = {}
    /\ links = {}

\* the dashboard page after DOMContentLoaded
Init ==
    /\ \E data \in DataSets, param \in UrlParams : Load(data, param)
    /\ ShareInit
    /\ NoComments

History(op) ==
    /\ lastOp' = op
    /\ preFiltered' = filteredData
    /\ prePage' = currentPage
    /\ preSort' = currentSort
    /\ preUrl' = urlState
    /\ UNCHANGED <<loadedData, firstRender>>
    /\ UNCHANGED <<shareVars, commentVars>>
    /\ sortStreak' =
          IF op.name # "sortTable" THEN 0
          ELSE IF lastOp.name = "sortTable" /\ lastOp.field = op.field
               THEN Min(sortStreak + 1, 2)
               ELSE 1

\* the change event of the status-filter control, the user having picked s
StatusFilterChange(s) ==
    /\ s # statusFilter
    /\ statusFilter' = s
    /\ ApplyFilters(s)
    /\ History(Op("statusChange", "null", 0))
    /\ UNCHANGED <<currentData, currentSort, chartData, accessTable, sortIndicator>>

\* a click on the column header tagged with field: sortTable(field)
SortTable(field) ==
    /\ currentSort' = NextSort(currentSort, field)
    /\ filteredData' \in
          SortOutcomes(currentData, filteredData, field, currentSort'.direction)
    /\ currentData' = DataAfterSort(currentData, filteredData')
    /\ tableBody' = RenderTable(filteredData', currentPage)
    /\ tbody' = RenderRows(currentData', tableBody')
    /\ clickLog' = <<>>
    /\ pagination' = RenderPagination(Len(filteredData'), currentPage)
    /\ sortIndicator' = UpdateSortIndicators(currentSort')
    /\ History(Op("sortTable", field, 0))
    /\ UNCHANGED <<currentPage, statusFilter, urlState, historyLength,
                   summaryStats, chartData, accessTable>>

\* dashboard.changePage(page)
ChangePage(page) ==
    /\ IF PageInRange(page, Len(filteredData))
       THEN /\ currentPage' = page
            /\ tableBody' = RenderTable(filteredData, page)
            /\ tbody' = RenderRows(currentData, tableBody')
            /\ clickLog' = <<>>
            /\ pagination' = RenderPagination(Len(filteredData), page)
       ELSE UNCHANGED <<currentPage, tableBody, tbody, clickLog, pagination>>
    /\ History(Op("changePage", "null", page))
    /\ UNCHANGED <<currentData, filteredData, currentSort, statusFilter, urlState,
                   historyLength, summaryStats, chartData, accessTable,
                   sortIndicator>>

Next ==
    \/ \E s \in StatusOptions : StatusFilterChange(s)
    \/ \E field \in SortFields \cup {UnknownField} : SortTable(field)
    \/ \E page \in 0..MaxPageArg : ChangePage(page)

Spec == Init /\ [][Next]_vars

(***************************************************************************)
(* Sharing: the share buttons of script.js and shareLink of the dashboard. *)
(***************************************************************************)
\* showCopiedFeedback (and the then-callback of shareLink): the label the
\* button shows now is what the timeout will restore
ShowCopiedFeedback(b) ==
    /\ buttonText' = [buttonText EXCEPT ![b] = CopiedText]
    /\ timers' = [timers EXCEPT ![b] = Append(@, buttonText[b])]

\* the steps the click handler of a share button takes, given what the browser
\* offers (canShare, canClip) and how each call ends; legacy is what
\* document.execCommand("copy") does: "true", "false" or "throws"
ShareSteps(canShare, shareOk, canClip, clipOk, legacy) ==
    LET t1 == IF canShare THEN <<"share">> ELSE <<>>
    IN  IF canShare /\ shareOk
        THEN [tried |-> t1, succeeded |-> "share", feedback |-> FALSE,
              alert |-> FALSE]
        ELSE LET t2 == IF canClip THEN Append(t1, "clipboard") ELSE t1
             IN  IF canClip /\ clipOk
                 THEN [tried |-> t2, succeeded |-> "clipboard", feedback |-> TRUE,
                       alert |-> FALSE]
                 ELSE [tried |-> Append(t2, "legacy"),
                       succeeded |-> IF legacy = "true" THEN "legacy" ELSE "none",
                       feedback |-> legacy # "throws",
                       alert |-> legacy = "throws"]

\* a click on the share button of script.js
ShareClick(canShare, shareOk, canClip, clipOk, legacy) ==
    LET b == "share-button"
        steps == ShareSteps(canShare, shareOk, canClip, clipOk, legacy)
    IN  /\ Len(timers[b]) < MaxPending
        /\ shareLog' = [button |-> b, tried |-> steps.tried,
                        succeeded |-> steps.succeeded,
                        feedback |-> steps.feedback, alert |-> steps.alert]
        /\ clipboard' = IF steps.succeeded \in {"clipboard", "legacy"}
                        THEN PageUrl ELSE clipboard
        /\ IF steps.feedback THEN ShowCopiedFeedback(b)
           ELSE UNCHANGED <<buttonText, timers>>
        /\ UNCHANGED <<pageErrors, dashboardVars, rowVars, commentVars>>

\* shareLink: the URL it builds
ShareUrl(sf) == [kind |-> "dashboard", committee |-> SELECTED_CODE, state |-> sf]

\* a click on the share-link button of the dashboard: shareLink, clip being
\* what navigator.clipboard is or does: "missing", "resolves" or "rejects"
ShareLink(clip) ==
    LET b == "share-link"
    IN  /\ Len(timers[b]) < MaxPending
        /\ shareLog' = [button |-> b,
                        tried |-> <<"clipboard">>,
                        succeeded |-> IF clip = "resolves" THEN "clipboard" ELSE "none",
                        feedback |-> clip = "resolves", alert |-> FALSE]
        /\ clipboard' = IF clip = "resolves" THEN ShareUrl(statusFilter) ELSE clipboard
        /\ pageErrors' =
              CASE clip = "missing" -> pageErrors \cup {"TypeError"}
                [] clip = "rejects" -> pageErrors \cup {"unhandledrejection"}
                [] OTHER -> pageErrors
        /\ IF clip = "resolves" THEN ShowCopiedFeedback(b)
           ELSE UNCHANGED <<buttonText, timers>>
        /\ UNCHANGED <<dashboardVars, rowVars, commentVars>>

\* the oldest pending timeout of button b fires
TimerFires(b) ==
    /\ timers[b] # <<>>
    /\ buttonText' = [buttonText EXCEPT ![b] = Head(timers[b])]
    /\ timers' = [timers EXCEPT ![b] = Tail(@)]
    /\ UNCHANGED <<clipboard, shareLog, pageErrors, dashboardVars, rowVars,
                   commentVars>>

InitShare ==
    /\ \E param \in UrlParams : Load(StateExample, param)
    /\ ShareInit
    /\ NoComments

NextShare ==
    \/ \E canShare, shareOk, canClip, clipOk \in BOOLEAN :
          \E legacy \in {"true", "false", "throws"} :
              ShareClick(canShare, shareOk, canClip, clipOk, legacy)
    \/ \E clip \in {"missing", "resolves", "rejects"} : ShareLink(clip)
    \/ \E b \in Buttons : TimerFires(b)

SpecShare == InitShare /\ [][NextShare]_vars

(***************************************************************************)
(* Row expansion: the click handler of the document.                       *)
(***************************************************************************)
RowClicked_ShowOnly(rows, r) ==
    IF rows[r].billRow /\ r + 1 <= Len(rows) /\ rows[r + 1].expandedRow
    THEN [rows EXCEPT ![r + 1].hidden = FALSE]
    ELSE rows

\* the rows after a click whose target lies in row r: closest('tr[data-bill-id]')
\* finds row r itself or nothing; nextElementSibling is row r + 1
RowClicked(rows, r) ==
    IF rows[r].billRow /\ r + 1 <= Len(rows) /\ rows[r + 1].expandedRow
    THEN [rows EXCEPT ![r + 1].hidden = ~rows[r + 1].hidden]
    ELSE rows

\* the last two entries of a log
LastTwo(log) == IF Len(log) > 2 THEN SubSeq(log, Len(log) - 1, Len(log)) ELSE log

\* a click inside row r of the table body
ClickRow(r) ==
    /\ tbody' = RowClicked(tbody, r)
    /\ clickLog' = LastTwo(Append(clickLog, [target |-> r, before |-> tbody]))
    /\ UNCHANGED <<dashboardVars, shareVars, commentVars>>

InitRows ==
    /\ \E data \in SmallDataSets, param \in UrlParams : Load(data, param)
    /\ ShareInit
    /\ NoComments

NextRows == \E r \in 1..Len(tbody) : ClickRow(r)

SpecRows == InitRows /\ [][NextRows]_vars

(***************************************************************************)
(* Comments: includes/comment.html, included once per rendered comment.    *)
(***************************************************************************)
\* {% set MAX_DEPTH = 2 %}
MAX_DEPTH == 2

\* the comment trees: comment c replies to thread[c], an earlier comment, or
\* to the post itself (0)
Threads ==
    UNION { {t \in [1..n -> 0..n] : \A c \in 1..n : t[c] < c} : n \in 0..MaxComments }

\* comment.ordered_replies (and, for 0, the comments of the post), oldest first
OrderedReplies(t, c) ==
    SelectSeq([i \in 1..Len(t) |-> i], LAMBDA i : t[i] = c)

RepliesInline_Through(depth) == depth <= MAX_DEPTH

\* {% if depth < MAX_DEPTH %}
RepliesInline(depth) == depth < MAX_DEPTH

\* the includes of the loop over replies: {% set depth = depth + 1 %} is local
\* to one pass of the loop, so every reply gets depth + 1
IncludesFor(replies, depth) ==
    [k \in 1..Len(replies) |-> [comment |-> replies[k], depth |-> depth + 1]]

\* the loop over the comments of the post: {% set depth = 0 %}
TopLevelIncludes(comments) ==
    [k \in 1..Len(comments) |-> [comment |-> comments[k], depth |-> 0]]

\* the page of a post
InitComments ==
    /\ Load(<<>>, [present |-> FALSE, value |-> S_empty])
    /\ ShareInit
    /\ thread \in Threads
    /\ pending = TopLevelIncludes(OrderedReplies(thread, 0))
    /\ rendered = {}
    /\ links = {}

\* one include of comment.html: the comment, then its replies or the link
RenderComment ==
    /\ pending # <<>>
    /\ LET c == Head(pending).comment
           depth == Head(pending).depth
           replies == OrderedReplies(thread, c)
       IN  /\ rendered' = rendered \cup {<<c, depth>>}
           /\ IF RepliesInline(depth)
              THEN /\ pending' = IncludesFor(replies, depth) \o Tail(pending)
                   /\ UNCHANGED links
              ELSE /\ pending' = Tail(pending)
                   /\ links' = IF replies # <<>> THEN links \cup {c} ELSE links
    /\ UNCHANGED <<thread, dashboardVars, rowVars, shareVars>>

NextComments == RenderComment

SpecComments == InitComments /\ [][NextComments]_vars /\ WF_vars(NextComments)

(***************************************************************************)
(* Properties.                                                             *)
(***************************************************************************)
\* the last handler was a filter change (applyFilters at load or on a change event)
FilterChanged == lastOp.name \in {"init", "statusChange"}

Sorted == lastOp.name = "sortTable"

LoadOrder(seq) == \A p, q \in 1..Len(seq) : p < q => seq[p] < seq[q]

Matches(i, sf) == sf = S_all \/ currentData[i].state = Str(sf)

PosIn(seq, x) == CHOOSE p \in 1..Len(seq) : seq[p] = x

Reverse(seq) == [p \in 1..Len(seq) |-> seq[Len(seq) + 1 - p]]

\* the comparator's result for the bills i and j under the sort descriptor cs
CompareBills(i, j, cs) ==
    Compare(SortKey(GetField(currentData[i], cs.field), cs.field),
            SortKey(GetField(currentData[j], cs.field), cs.field),
            cs.direction)

\* C1: after a filter change with selected status S the filtered view holds
\* exactly the bills of the loaded data whose state is S (all of them when S is
\* "all"), each once, in load order, whatever sorts and page changes came before.
C1_FilterExact ==
    FilterChanged =>
        /\ \A p \in 1..Len(filteredData) :
              /\ filteredData[p] \in 1..Len(currentData)
              /\ Matches(filteredData[p], statusFilter)
        /\ \A i \in 1..Len(currentData) :
              Matches(i, statusFilter) => \E p \in 1..Len(filteredData) : filteredData[p] = i
        /\ LoadOrder(filteredData)

\* a filter change to one status that keeps two bills which an earlier sort had
\* put in the opposite of their load order
C1_Witness ==
    /\ lastOp.name = "statusChange"
    /\ statusFilter # S_all
    /\ preSort.field # "null"
    /\ \E p, q \in 1..Len(preFiltered) :
          /\ p < q
          /\ preFiltered[p] > preFiltered[q]
          /\ \E r, s \in 1..Len(filteredData) :
                filteredData[r] = preFiltered[q] /\ filteredData[s] = preFiltered[p]

\* C2: whenever a sort field is active, after a filter change the filtered view
\* is ordered by the active comparator; with no sort active it is in load order.
C2_SortKeptAcrossFilter ==
    FilterChanged =>
        IF currentSort.field # "null"
        THEN \A p, q \in 1..Len(filteredData) :
                p < q => CompareBills(filteredData[p], filteredData[q], currentSort) <= 0
        ELSE LoadOrder(filteredData)

\* C3: changePage(n) with n outside [1, totalPages] changes neither the current
\* page nor the filtered view nor the sort descriptor; with n inside it sets the
\* current page to n and leaves the other two alone.  Page n is inside exactly
\* when n >= 1 and the view has a bill beyond the first n - 1 pages.
C3_ChangePage ==
    lastOp.name = "changePage" =>
        LET n == lastOp.page
            inside == n >= 1 /\ (n - 1) * itemsPerPage < Len(preFiltered)
        IN  /\ filteredData = preFiltered
            /\ currentSort = preSort
            /\ currentPage = IF inside THEN n ELSE prePage

\* a request past the last page, made on page 3 (itself reached by changePage)
C3_Witness ==
    /\ lastOp.name = "changePage"
    /\ lastOp.page > 3
    /\ lastOp.page * itemsPerPage >= Len(filteredData) + itemsPerPage
    /\ prePage = 3
    /\ currentPage = 3
    /\ preSort.field # "null"

\* C4: every filter change leaves the current page at 1.
C4_FilterResetsPage == FilterChanged => currentPage = 1

\* a filter change made while page 2 or later was shown
C4_Witness == lastOp.name = "statusChange" /\ prePage > 1 /\ currentPage = 1

\* C5: sortTable(field) toggles the direction when field is the active sort
\* field, and otherwise makes field active with direction ascending.
C5_SortDescriptor ==
    Sorted =>
        /\ currentSort.field = lastOp.field
        /\ IF preSort.field = lastOp.field
           THEN currentSort.direction = (IF preSort.direction = "asc" THEN "desc" ELSE "asc")
           ELSE currentSort.direction = "asc"

\* the third sort in a row on one field: descending toggled back to ascending
C5_Witness ==
    /\ Sorted
    /\ sortStreak = 2
    /\ preSort = [field |-> lastOp.field, direction |-> "desc"]
    /\ currentSort = [field |-> lastOp.field, direction |-> "asc"]

\* no two bills of seq compare equal under the sort descriptor cs
NoTies(seq, cs) ==
    \A p, q \in 1..Len(seq) :
        p # q => CompareBills(seq[p], seq[q], cs) # 0

\* C6 as stated: after two sorts in a row on one field the view is the exact
\* reverse of what the first sort left, ties or not.
C6_SecondSortReverses == sortStreak = 2 => filteredData = Reverse(preFiltered)

\* C6 amended: after two sorts in a row on one field the view is the exact
\* reverse of what the first sort left, when no two bills of the view compare
\* equal on that field.
C6_ReversesWithoutTies ==
    (sortStreak = 2 /\ NoTies(preFiltered, currentSort)) =>
        filteredData = Reverse(preFiltered)

\* two sorts in a row on a field on which three or more bills all differ
C6_Witness ==
    /\ sortStreak = 2
    /\ Len(preFiltered) >= 3
    /\ NoTies(preFiltered, currentSort)
    /\ filteredData # preFiltered

\* C7: in every sortTable call two bills whose keys compare equal keep the
\* relative order they had in the view before the call.
C7_TiesKeepOrder ==
    Sorted =>
        \A p, q \in 1..Len(preFiltered) :
            (p < q /\ CompareBills(preFiltered[p], preFiltered[q], currentSort) = 0)
                => PosIn(filteredData, preFiltered[p]) < PosIn(filteredData, preFiltered[q])

\* the integer a notice gap stands for: the number, the value of a string of
\* digits, and 0 for anything else
GapInt(v) ==
    CASE v.k = "num" -> v.n
      [] v.k = "str" /\ v.s # <<>> /\ (\A c \in 1..Len(v.s) : IsDigit(v.s[c])) ->
            DigitsValue(v.s)
      [] OTHER -> 0

GapOf(i) == GapInt(currentData[i].notice_gap_days)

\* C8: a sort on the notice gap orders the view by the integer value of the gap,
\* null and non-numeric gaps counting as 0; the gaps 9, 10, 2, null come out
\* ascending as null, 2, 9, 10.
C8_GapNumeric ==
    (Sorted /\ lastOp.field = "notice_gap_days") =>
        /\ \A p, q \in 1..Len(filteredData) :
              p < q =>
                 IF currentSort.direction = "asc"
                 THEN GapOf(filteredData[p]) <= GapOf(filteredData[q])
                 ELSE GapOf(filteredData[p]) >= GapOf(filteredData[q])
        /\ (currentData = GapExample /\ statusFilter = S_all
                /\ currentSort.direction = "asc")
              => filteredData = <<4, 3, 1, 2>>

\* the gaps 9, 10, 2, null sorted ascending
C8_Witness ==
    /\ Sorted
    /\ lastOp.field = "notice_gap_days"
    /\ currentData = GapExample
    /\ statusFilter = S_all
    /\ currentSort.direction = "asc"
    /\ preFiltered = <<1, 2, 3, 4>>
    /\ filteredData = <<4, 3, 1, 2>>

IsMissing(v) == v.k \in {"null", "undef"}

IsNonEmpty(v) == v.k = "num" \/ (v.k = "str" /\ v.s # <<>>)

\* C9: after a sort on any field a bill whose value for the field is null or
\* absent stands before every bill with a non-empty value when the direction is
\* ascending, and after every such bill when it is descending.
C9_MissingFirst ==
    Sorted =>
        \A p, q \in 1..Len(filteredData) :
            ( /\ IsMissing(GetField(currentData[filteredData[p]], lastOp.field))
              /\ IsNonEmpty(GetField(currentData[filteredData[q]], lastOp.field)) )
                => IF currentSort.direction = "asc" THEN p < q ELSE p > q

\* a date in the form YYYY-MM-DD as the number YYYYMMDD
IsDateText(v) == v.k = "str" /\ IsIsoDate(v.s)

DateNumber(v) ==
    10000 * DigitsValue(SubSeq(v.s, 1, 4)) + 100 * DigitsValue(SubSeq(v.s, 6, 7))
        + DigitsValue(SubSeq(v.s, 9, 10))

\* C10: after a sort on a date field the bills that have a date are in
\* chronological order (reverse chronological when descending), bills with a
\* missing or unparseable date notwithstanding.
C10_Chronological ==
    (Sorted /\ lastOp.field \in DateFields) =>
        \A p, q \in 1..Len(filteredData) :
            LET a == GetField(currentData[filteredData[p]], lastOp.field)
                b == GetField(currentData[filteredData[q]], lastOp.field)
            IN  (p < q /\ IsDateText(a) /\ IsDateText(b)) =>
                    IF currentSort.direction = "asc"
                    THEN DateNumber(a) <= DateNumber(b)
                    ELSE DateNumber(a) >= DateNumber(b)

\* C11: sortTable with a field name that no bill has and no column is tagged
\* with changes nothing: the order of the filtered view, the current page and
\* the sort descriptor (field and direction) are what they were before the call.
C11_UnknownFieldNoOp ==
    (Sorted /\ lastOp.field = UnknownField) =>
        /\ filteredData = preFiltered
        /\ currentPage = prePage
        /\ currentSort = preSort

\* C12: after any sequence of filter changes, sorts and page changes the loaded
\* data is the list the constructor received, the same bills in the same order
\* with the same fields, and every entry of the filtered view refers to one of
\* those bills, no bill twice.
C12_LoadedDataKept ==
    /\ currentData = loadedData
    /\ \A p \in 1..Len(filteredData) : filteredData[p] \in 1..Len(loadedData)
    /\ Injective(filteredData)

C12_Witness ==
    /\ Sorted
    /\ Len(filteredData) = Len(currentData)
    /\ ~LoadOrder(filteredData)
    /\ currentData = loadedData

\* C13: when the filtered view needs more than one page the pagination region
\* shows the range from (page-1)*50 + 1 to the smaller of page*50 and the number
\* of filtered bills, that number as the total, and ceil(number / 50) pages;
\* with 120 filtered bills there are 3 pages and page 2 shows 51 to 100 of 120.
C13_PaginationText ==
    LET n == Len(filteredData)
    IN  n > itemsPerPage =>
          /\ pagination.controls
          /\ pagination.page = currentPage
          /\ pagination.total = n
          /\ pagination.startItem = (currentPage - 1) * itemsPerPage + 1
          /\ pagination.endItem <= n
          /\ pagination.endItem <= currentPage * itemsPerPage
          /\ pagination.endItem \in {n, currentPage * itemsPerPage}
          /\ pagination.totalPages * itemsPerPage >= n
          /\ (pagination.totalPages - 1) * itemsPerPage < n
          /\ (n = 120 /\ currentPage = 2) =>
                /\ pagination.startItem = 51
                /\ pagination.endItem = 100
                /\ pagination.total = 120
                /\ pagination.totalPages = 3

C13_Witness ==
    /\ Len(filteredData) = 120
    /\ currentPage = 2
    /\ lastOp = Op("changePage", "null", 2)
    /\ pagination.startItem = 51
    /\ pagination.endItem = 100

\* C14: whenever the filtered view fits on one page, the empty view included,
\* the pagination region holds the count of filtered bills alone, without range
\* text and without Previous/Next controls; for an empty view that count is 0.
C14_SinglePageSummary ==
    Len(filteredData) <= itemsPerPage =>
        /\ ~pagination.controls
        /\ pagination.total = Len(filteredData)
        /\ pagination.startItem = 0 /\ pagination.endItem = 0

C14_Witness ==
    /\ Len(filteredData) = 0
    /\ Len(preFiltered) > 0
    /\ lastOp.name = "statusChange"
    /\ ~pagination.controls
    /\ pagination.total = 0

\* the bills of the filtered view whose state is st
StateCount(st) ==
    Cardinality({p \in 1..Len(filteredData) :
                    currentData[filteredData[p]].state = Str(st)})

\* C15: after every filter change the counts given to the chart and the counts
\* of the accessibility table are the counts, per status, of the bills of the
\* current filtered view.
C15_CountsFollowFilter ==
    FilterChanged =>
        /\ chartData.compliant = StateCount(S_compliant)
        /\ chartData.nonCompliant = StateCount(S_non_compliant)
        /\ chartData.incomplete = StateCount(S_incomplete)
        /\ accessTable.compliant = StateCount(S_compliant)
        /\ accessTable.nonCompliant = StateCount(S_non_compliant)
        /\ accessTable.incomplete = StateCount(S_incomplete)

\* C16: the four counts given to the chart (compliant, non-compliant,
\* incomplete, unknown) are the four counts of the accessibility table, also
\* when a bill's state is none of the four values.
C16_ChannelsAgree ==
    /\ chartData.compliant = accessTable.compliant
    /\ chartData.nonCompliant = accessTable.nonCompliant
    /\ chartData.incomplete = accessTable.incomplete
    /\ chartData.unknown = accessTable.unknown

Recognized(bill) ==
    bill.state \in {Str(S_compliant), Str(S_non_compliant), Str(S_incomplete),
                    Str(S_unknown)}

\* C17: the summary shows the number of filtered bills as the total, the
\* compliant and the non-compliant ones among them (a bill of unrecognized state
\* is in the total and in neither), and as the rate compliant / total * 100
\* rounded to the nearest integer, half up: 33 for 1 of 3, 0 for an empty view.
C17_ComplianceRate ==
    LET t == Len(filteredData)
        c == StateCount(S_compliant)
        r == summaryStats.rate
    IN  /\ summaryStats.total = t
        /\ summaryStats.compliant = c
        /\ summaryStats.nonCompliant = StateCount(S_non_compliant)
        /\ t = 0 => r = 0
        /\ t > 0 => (2 * r * t <= 200 * c + t /\ 200 * c + t < 2 * (r + 1) * t)
        /\ (t = 3 /\ c = 1) => r = 33

C17_Witness ==
    /\ summaryStats.total = 3
    /\ summaryStats.compliant = 1
    /\ summaryStats.nonCompliant = 1
    /\ summaryStats.rate = 33
    /\ \E p \in 1..Len(filteredData) : ~Recognized(currentData[filteredData[p]])

\* the values the spec names for the filter: "all" and the four statuses
ValidFilter(v) ==
    v \in {S_all, S_compliant, S_non_compliant, S_incomplete, S_unknown}

C19_UrlReadBeforeRender ==
    lastOp.name = "init" =>
        /\ firstRender.table = tableBody
        /\ firstRender.pagination = pagination
        /\ firstRender.summary = summaryStats

\* C20: filter changes replace the current history entry, so the history has
\* the one entry of the page load throughout; after a filter change the URL's
\* state parameter is the value of the filter; sorts and page changes leave the
\* URL as it was.
C20_UrlFollowsFilter ==
    /\ historyLength = 1
    /\ FilterChanged => urlState = [present |-> TRUE, value |-> statusFilter]
    /\ lastOp.name \in {"sortTable", "changePage"} => urlState = preUrl

C20_Witness ==
    /\ lastOp.name = "statusChange"
    /\ preUrl = [present |-> TRUE, value |-> S_all]
    /\ urlState = [present |-> TRUE, value |-> S_compliant]
    /\ statusFilter = S_compliant
    /\ historyLength = 1

\* what a fresh dashboard holds after it was constructed over data with the
\* URL parameter param and the history of length entries
Restored(data, param, entries) ==
    LET sf == LoadFiltersFromURL(param)
    IN  [statusFilter |-> sf,
         filteredData |-> FilterRecords(data, sf),
         urlState |-> UpdateURL(sf, entries).param,
         historyLength |-> UpdateURL(sf, entries).entries]

\* C21: after the filter was set to F, a fresh dashboard initialized from the
\* resulting URL has F as its filter and the same filtered view, and leaves the
\* URL and the history as they were; initializing once more from the URL it
\* left gives the same again.
C21_UrlRoundTrip ==
    FilterChanged =>
        LET once == Restored(currentData, urlState, historyLength)
            twice == Restored(currentData, once.urlState, once.historyLength)
        IN  /\ once.statusFilter = statusFilter
            /\ once.filteredData = filteredData
            /\ once.urlState = urlState
            /\ once.historyLength = historyLength
            /\ twice = once

C21_Witness ==
    /\ lastOp.name = "statusChange"
    /\ statusFilter = S_non_compliant
    /\ urlState = [present |-> TRUE, value |-> S_non_compliant]
    /\ Len(filteredData) > 0
    /\ Len(filteredData) < Len(currentData)
    /\ Restored(currentData, urlState, historyLength).statusFilter = S_non_compliant

\* C28: in every state the current page is at least 1 and at most the number
\* of pages of the filtered view, taken as 1 when the view is empty.
C28_PageInBounds ==
    /\ currentPage >= 1
    /\ currentPage * itemsPerPage < Max(Len(filteredData), 1) + itemsPerPage

C28_Witness ==
    /\ Len(filteredData) > 2 * itemsPerPage
    /\ currentPage * itemsPerPage >= Len(filteredData)
    /\ lastOp.name = "changePage"
    /\ lastOp.page = currentPage + 1

Range(seq) == {seq[p] : p \in 1..Len(seq)}

\* C29: a step of sortTable leaves in the filtered view the records it held,
\* each once, and leaves the current page, the selected filter, the URL and the
\* history as they were.
C29_SortFrame ==
    [][lastOp'.name = "sortTable" =>
          /\ Len(filteredData') = Len(filteredData)
          /\ Range(filteredData') = Range(filteredData)
          /\ Cardinality(Range(filteredData')) = Len(filteredData')
          /\ currentPage' = currentPage
          /\ statusFilter' = statusFilter
          /\ urlState' = urlState
          /\ historyLength' = historyLength]_vars

C29_Witness ==
    /\ Sorted
    /\ filteredData # preFiltered
    /\ Range(filteredData) = Range(preFiltered)
    /\ statusFilter # S_all
    /\ urlState = [present |-> TRUE, value |-> statusFilter]

\* C30: the rows rendered are the records of the filtered view at the positions
\* (p-1)*50 + 1 to min(p*50, count) for the current page p, in that order; the
\* pages 1..totalPages render consecutive ranges of positions that end with
\* the last record, so together every record of the view exactly once;
\* and when a range is displayed the page has end - start + 1 rows.
C30_PageRows ==
    LET n == Len(filteredData)
        first == (currentPage - 1) * itemsPerPage + 1
        last == Min(currentPage * itemsPerPage, n)
    IN  /\ Len(tableBody) = Max(last - first + 1, 0)
        /\ \A k \in 1..Len(tableBody) : tableBody[k] = filteredData[first + k - 1]
        /\ \A p \in 1..TotalPages(n) :
              RenderTable(filteredData, p) =
                  SubSeq(filteredData, (p - 1) * itemsPerPage + 1,
                         Min(p * itemsPerPage, n))
        /\ Min(TotalPages(n) * itemsPerPage, n) = n
        /\ pagination.controls =>
              Len(tableBody) = pagination.endItem - pagination.startItem + 1

C30_Witness ==
    /\ Len(filteredData) > 2 * itemsPerPage
    /\ currentPage = 3
    /\ Len(tableBody) = Len(filteredData) - 2 * itemsPerPage
    /\ tableBody[1] = filteredData[2 * itemsPerPage + 1]
    /\ pagination.startItem = 2 * itemsPerPage + 1

\* C22: a click on the dashboard's share button copies a URL that carries the
\* committee code and the current filter value, and when the clipboard is
\* missing or refuses the write the page gets no uncaught error and no
\* unhandled rejection.
C22_ShareLinkFallsBack ==
    shareLog.button = "share-link" =>
        /\ shareLog.succeeded = "clipboard" =>
              clipboard = [kind |-> "dashboard", committee |-> SELECTED_CODE,
                           state |-> statusFilter]
        /\ pageErrors = {}

\* the positions of the steps in the chain
StepRank(step) ==
    CASE step = "share" -> 1 [] step = "clipboard" -> 2 [] step = "legacy" -> 3

\* C23: a share click tries native share, the clipboard write and the legacy
\* copy in that order and stops at the first that succeeds; the "copy manually"
\* notice is shown exactly when none of the three succeeded.
C23_ShareChain ==
    shareLog.button = "share-button" =>
        /\ \A p, q \in 1..Len(shareLog.tried) :
              p < q => StepRank(shareLog.tried[p]) < StepRank(shareLog.tried[q])
        /\ shareLog.succeeded # "none" =>
              shareLog.tried[Len(shareLog.tried)] = shareLog.succeeded
        /\ shareLog.alert <=> shareLog.succeeded = "none"

\* C24: once every pending timeout of a share button has fired the button
\* shows its original label, whatever share clicks came before.
C24_LabelReverts ==
    \A b \in Buttons : timers[b] = <<>> => buttonText[b] = OriginalText

\* a deadline that is there: a non-empty text
Present(v) == v.k = "str" /\ v.s # <<>>

\* C25: the effective-deadline cell of a rendered bill is a link exactly when
\* the bill's base deadline and effective deadline are both present and differ;
\* otherwise it is the effective deadline as plain text, or "N/A" without one.
C25_ExtensionCell ==
    \A r \in 1..Len(tbody) :
        tbody[r].billRow =>
            LET base == currentData[tbody[r].bill].deadline_60
                eff == currentData[tbody[r].bill].effective_deadline
                cell == tbody[r].effective
            IN  /\ cell.link <=> (Present(base) /\ Present(eff) /\ base # eff)
                /\ cell.text = IF Present(eff) THEN eff.s ELSE S_NA

C25_Witness ==
    /\ \E r \in 1..Len(tbody) :
          /\ tbody[r].billRow
          /\ Present(currentData[tbody[r].bill].effective_deadline)
          /\ ~Present(currentData[tbody[r].bill].deadline_60)
          /\ ~tbody[r].effective.link
          /\ tbody[r].effective.text = currentData[tbody[r].bill].effective_deadline.s
    /\ \E r \in 1..Len(tbody) :
          /\ tbody[r].billRow
          /\ Present(currentData[tbody[r].bill].deadline_60)
          /\ ~tbody[r].effective.link
          /\ tbody[r].effective.text = S_NA

\* C26: a click on the row of a bill flips the visibility of the detail row
\* after it and changes no other row: it shows a hidden detail row, and two
\* clicks in a row on the same bill leave the rows as they were.
C26_RowToggle ==
    /\ clickLog # <<>> =>
          LET last == clickLog[Len(clickLog)]
              t == last.target
          IN  last.before[t].billRow =>
                /\ Len(tbody) = Len(last.before)
                /\ tbody[t + 1].hidden = ~last.before[t + 1].hidden
                /\ last.before[t + 1].bill = last.before[t].bill
                /\ \A r \in 1..Len(tbody) : r # t + 1 => tbody[r] = last.before[r]
                /\ \A r \in 1..Len(tbody) :
                      /\ tbody[r].bill = last.before[r].bill
                      /\ tbody[r].billRow = last.before[r].billRow
    /\ ( /\ Len(clickLog) = 2
         /\ clickLog[1].target = clickLog[2].target
         /\ tbody[clickLog[1].target].billRow ) => tbody = clickLog[1].before

C26_Witness ==
    /\ Len(clickLog) = 2
    /\ Len(tbody) >= 4
    /\ clickLog[1].target = clickLog[2].target
    /\ tbody[clickLog[1].target].billRow
    /\ clickLog[1].before[clickLog[1].target + 1].hidden
    /\ ~clickLog[2].before[clickLog[1].target + 1].hidden
    /\ tbody = clickLog[1].before

RECURSIVE TrueDepth(_, _)
\* the number of comments above c in the thread
TrueDepth(t, c) == IF t[c] = 0 THEN 0 ELSE 1 + TrueDepth(t, t[c])

HasReplies(t, c) == \E r \in 1..Len(t) : t[r] = c

\* what the depth cap allows so far, and what a finished page holds
DepthCapKept ==
    /\ \A e \in rendered :
          /\ e[2] = TrueDepth(thread, e[1])
          /\ e[2] <= MAX_DEPTH
          /\ thread[e[1]] # 0 => <<thread[e[1]], e[2] - 1>> \in rendered
    /\ \A c \in links : <<c, MAX_DEPTH>> \in rendered /\ HasReplies(thread, c)
    /\ pending = <<>> =>
          /\ rendered = {<<c, TrueDepth(thread, c)>> :
                            c \in {x \in 1..Len(thread) :
                                      TrueDepth(thread, x) <= MAX_DEPTH}}
          /\ links = {c \in 1..Len(thread) :
                        TrueDepth(thread, c) = MAX_DEPTH /\ HasReplies(thread, c)}

\* C27: every comment is rendered at the depth it has in the thread, top-level
\* comments at 0 and a reply one deeper than its parent; none is rendered
\* deeper than MAX_DEPTH; a comment at MAX_DEPTH with replies gets the
\* "continue discussion" link instead of its replies; and the rendering of
\* every thread comes to an end.
C27_DepthCap == []DepthCapKept /\ <>(pending = <<>>)

C27_Witness ==
    /\ pending = <<>>
    /\ links # {}
    /\ \E c \in 1..Len(thread) : TrueDepth(thread, c) > MAX_DEPTH
    /\ Cardinality(rendered) = MAX_DEPTH + 1

====
